---- MODULE Spec2Model ----
(***************************************************************************)
(* Animation state orchestration core of the avatar chat frontend:         *)
(*   ChatInterfaceComponent   (chat-interface.ts)                          *)
(*   AudioPlaybackService     (audio-playback.service.ts)                  *)
(*   FaceAnimationService     (face-animation.service.ts)                  *)
(*   AvatarAnimationService   (orchestrator, "NEW ARCHITECTURE" revision)  *)
(*   AmbientAudioService      (face-only revision)                         *)
(*   BodyAnimationLoaderService (backend.service.ts)                       *)
(* Everything runs on one event loop: an action of this module is one      *)
(* synchronous block of code (a handler up to its next await, or a         *)
(* continuation after an await, a timer callback, a media event handler).  *)
(***************************************************************************)
EXTENDS Integers, Sequences, FiniteSets, TLC

\* ------------------------------------------------------------ bounds
\* user actions accepted in one run (sends, replays, manual triggers, toggles)
MaxUserOps == 2
\* user actions accepted in one run of the chat-only specification
MaxChatOps == 3
\* ambient clips the periodic timer may start in one run
MaxAmbient == 1
\* setAvatarState calls in one run of the orchestrator specification
MaxCalls == 4
\* user actions and state changes in one run of the scheduler specification
MaxAmbOps == 2
\* recorded trigger attempts in one run of the scheduler specification
MaxAttempts == 2
\* direct calls in one run of the face specification
MaxFaceOps == 3
\* length of an audio stream, in steps of the media clock
MaxTime == 1
\* direct calls in one run of the sampling specification
MaxSampleOps == 3
\* recorded sampling ticks in one run of the sampling specification
MaxBodyOps == 3
MaxClips == 2
MaxSamples == 3

AvatarStates == {"idle", "thinking", "talking"}

\* The ambient catalog: applicable AvatarState and trigger probability (percent).
ambientClips ==
  << [forState |-> "idle",     chance |-> 60],
     [forState |-> "idle",     chance |-> 70],
     [forState |-> "idle",     chance |-> 95],
     [forState |-> "thinking", chance |-> 80] >>

\* Values of Math.random() * 100 that fall on both sides of every chance, and
\* on one of them.
Rolls == {0, 60, 65, 99}

\* The shapes a successful backend response can take: audioUrl and csvData are
\* optional; csv is TRUE when csvData is present and parses to >= 1 frame.
Responses ==
  { [audio |-> TRUE,  csv |-> TRUE],
    [audio |-> TRUE,  csv |-> FALSE],
    [audio |-> FALSE, csv |-> FALSE] }

VARIABLES
  \* ChatInterfaceComponent
  currentPlaybackId,   \* the playback token
  isProcessing,
  messages,            \* the transcript: Seq of [role, audio, csv, isPlaying, err]
  sendPc,              \* position of the (single) sendMessage in flight:
                       \* "delay100", "backend"; "none" or, after its catch
                       \* block ran, "failed" when no send is in flight
  replayTimers,        \* pending setTimeout(100) callbacks of replayMessage
                       \* (FIFO): [msg, req], req the token when it was armed
  playbacks,           \* playMessageAudio runs that got past their entry
                       \* checks: [msg, id, req, pc, exit]; id is the token the
                       \* run was given, req the token of the user action that
                       \* asked for it
  \* AudioPlaybackService
  audio,               \* index in elems of this.audio, 0 for null
  pubIsPlaying,        \* playbackState.value.isPlaying
  elems,               \* every Audio element created so far
  \* FaceAnimationService
  isAnimating,
  animationFrameId,    \* TRUE when the field holds a request id (not null)
  raf,                 \* the browser's animation frame requests made by
                       \* animateLipSync: [pending, held]; pending counts the
                       \* callbacks requested and neither run nor cancelled,
                       \* held tells whether the id in animationFrameId (always
                       \* the last one requested) is one of them
  lipSyncData,         \* whose frames are loaded: <<"none",0>>, <<"msg",m>>, <<"amb",a>>
  faceDirty,           \* a frame may have been applied since the last resetFace
  morphTargetInfluences, \* one entry per bound mesh (morphTargetMeshes):
                       \* target name -> intensity in percent
  \* AvatarAnimationService (orchestrator) and BodyAnimationLoaderService
  avatarState,
  published,           \* every value avatarStateSubject has emitted, in order
  bodyLoad,            \* "loading", "ready" (isLoaded), "started" (viewer's ready$ callback ran)
  bodyClip,            \* category of currentAction, "none" when null
  bodyRequests,        \* playbacks playRandomAnimation has started
  library,             \* clips the loaded files yielded, per category:
                       \* idleAnimations, thinkingAnimations, talkingAnimations
  currentAction,       \* the clip whose action is current: <<category, index>>
  stopTimers,          \* pending setTimeout callbacks of stopAnimation (FIFO):
                       \* [was, at], the action that was current and the
                       \* number of playbacks started when stopAnimation ran
  pendingBody,         \* pending setTimeout(1000) retries of setAvatarState (FIFO)
  \* AmbientAudioService
  ambIsPlaying,        \* the in-flight flag (this.isPlaying)
  currentBodyState,
  enabled,
  intervalId,          \* TRUE when the field holds a timer id (not null)
  timers,              \* the setTimeout timers of the periodic check:
                       \* [pending, held]; pending counts the timers set and
                       \* neither fired nor cleared, held tells whether the id
                       \* in intervalId (always the last one set) is one of them
  ambients,            \* playAmbientClip runs
  \* bookkeeping of the bounds
  opsLeft,             \* user actions still allowed in this run
  lastOp,              \* the last user action: [op, arg, n, mark, quiet]; n is
                       \* its number, mark the length of published when it was
                       \* taken, quiet whether the avatar was idle with nothing
                       \* in flight
  nAmbient,
  sampled,             \* [n, pos, hit, src, of, cut]; src is the blob whose
                       \* frames the last startLipSync was given, of the blob
                       \* whose frames the last tick read, cut the number of
                       \* startLipSync calls made while a callback was
                       \* pending, and n, pos, hit describe
                       \* the last recorded sampling tick on parsed frames:
                       \* [n, pos, hit]: its number, the clock position it
                       \* read (ms), the index of the frame it applied (0: none)
  attempt              \* the last recorded trigger attempt of the scheduler:
                       \* [n, body, clip, roll, passed]; n is its number, body
                       \* the scheduler's view of AvatarState, passed whether
                       \* it got past the enabled and audio guards

chatVars  == <<currentPlaybackId, isProcessing, messages, sendPc, replayTimers, playbacks>>
audioVars == <<audio, pubIsPlaying, elems>>
faceVars  == <<isAnimating, animationFrameId, raf, lipSyncData, faceDirty,
               morphTargetInfluences>>
orchVars  == <<avatarState, published, bodyClip, bodyRequests, pendingBody,
               currentBodyState, intervalId, timers, library, currentAction,
               stopTimers>>
ambVars   == <<ambIsPlaying, enabled, ambients, nAmbient>>
ghostVars == <<opsLeft, lastOp, attempt, sampled>>
vars == <<chatVars, audioVars, faceVars, orchVars, ambVars, bodyLoad, ghostVars>>

NoData == <<"none", 0>>

\* BodyAnimationLoaderService.isReady()
BodyIsReady == bodyLoad # "loading"

\* currentAction = null
NoAction == <<"none", 0>>

\* the clips of one category, by their position in its array
ClipsOf(cat) == {<<cat, i>> : i \in 1 .. library[cat]}

\* the library every whole-system run loads: each category holds clips
ClipsPerCategory == 1
StandardLibrary ==
  [idle |-> ClipsPerCategory, thinking |-> ClipsPerCategory, talking |-> ClipsPerCategory]

InitCore(ops) ==
  /\ opsLeft = ops
  /\ lastOp = [op |-> "none", arg |-> "", n |-> 0, mark |-> 1, quiet |-> TRUE]
  /\ attempt = [n |-> 0, body |-> "none", clip |-> 0, roll |-> 0, passed |-> FALSE]
  /\ sampled = [n |-> 0, pos |-> 0, hit |-> 0, src |-> 0, of |-> 0, cut |-> 0]
  /\ currentPlaybackId = 0
  /\ isProcessing = FALSE
  /\ messages = << [role |-> "assistant", audio |-> FALSE, csv |-> FALSE,
                    isPlaying |-> FALSE, err |-> FALSE] >>
  /\ sendPc = "none"
  /\ replayTimers = <<>>
  /\ playbacks = <<>>
  /\ audio = 0
  /\ pubIsPlaying = FALSE
  /\ elems = <<>>
  /\ isAnimating = FALSE
  /\ animationFrameId = FALSE
  /\ raf = [pending |-> 0, held |-> FALSE]
  /\ lipSyncData = NoData
  /\ faceDirty = FALSE
  /\ morphTargetInfluences = <<>>
  /\ avatarState = "idle"
  /\ published = <<"idle">>
  /\ bodyLoad = "loading"
  /\ bodyClip = "none"
  /\ bodyRequests = 0
  /\ currentAction = NoAction
  /\ stopTimers = <<>>
  /\ pendingBody = <<>>
  /\ ambIsPlaying = FALSE
  /\ currentBodyState = "idle"
  /\ enabled = TRUE
  /\ intervalId = TRUE
  /\ timers = [pending |-> 1, held |-> TRUE]
  /\ ambients = <<>>
  /\ nAmbient = 0

InitWith(ops) == InitCore(ops) /\ library = StandardLibrary

Init == InitWith(MaxUserOps)

\* ------------------------------------------------------------ helpers

ClearPlaying(ms) == [i \in DOMAIN ms |-> [ms[i] EXCEPT !.isPlaying = FALSE]]

Message(role, r, err) ==
  [role |-> role, audio |-> r.audio, csv |-> r.csv, isPlaying |-> FALSE, err |-> err]

NoMedia == [audio |-> FALSE, csv |-> FALSE]

\* ------------------------------------------------------------
\* AvatarAnimationService (orchestrator) with its subscribers

\* the switch without the fallbacks to the idle array
AvailableAnimationsOwnOnly(s) == ClipsOf(s)

\* playRandomAnimation's switch: the array it draws from for a state.
\* thinking and talking fall back to the idle array when theirs is empty.
AvailableAnimations(s) ==
  IF s = "idle" \/ ClipsOf(s) = {} THEN ClipsOf("idle") ELSE ClipsOf(s)

\* BodyAnimationLoaderService.playRandomAnimation: returns when the mixer is
\* missing or the library is not loaded, returns when the array is empty,
\* else picks any clip of the array, fades to it (or starts it) and makes its
\* action the current one.
PlayRandomAnimation(s) ==
  IF bodyLoad = "loading" \/ AvailableAnimations(s) = {}
    THEN UNCHANGED <<bodyClip, bodyRequests, currentAction>>
    ELSE /\ \E clip \in AvailableAnimations(s) :
              currentAction' = clip /\ bodyClip' = clip[1]
         /\ bodyRequests' = bodyRequests + 1

\* A startPeriodicCheck that sets a timer whether or not one is held.
StartPeriodicCheckAgain == [pending |-> timers.pending + 1, held |-> TRUE]

\* startPeriodicCheck: returns when intervalId is set, else sets a timer
StartPeriodicCheck ==
  IF intervalId THEN timers ELSE [pending |-> timers.pending + 1, held |-> TRUE]

\* stopPeriodicCheck: clearTimeout(this.intervalId), a no-op on null and on
\* the id of a timer that has fired
StopPeriodicCheck ==
  IF intervalId /\ timers.held
    THEN [pending |-> timers.pending - 1, held |-> FALSE]
    ELSE [timers EXCEPT !.held = FALSE]

\* AmbientAudioService.handleBodyStateChange: the avatarState$ subscriber.
\* startPeriodicCheck arms a timer unless one is armed; stopPeriodicCheck clears it.
HandleBodyStateChange(s) ==
  /\ currentBodyState' = s
  /\ intervalId' = (s # "talking")
  /\ timers' = IF s = "talking" THEN StopPeriodicCheck ELSE StartPeriodicCheck

\* The older revision: publishes and plays on every call.
SetAvatarStateAlways(s) ==
  /\ avatarState' = s
  /\ published' = Append(published, s)
  /\ HandleBodyStateChange(s)
  /\ IF BodyIsReady
       THEN PlayRandomAnimation(s) /\ UNCHANGED pendingBody
       ELSE pendingBody' = Append(pendingBody, s)
            /\ UNCHANGED <<bodyClip, bodyRequests, currentAction>>
  /\ UNCHANGED <<library, stopTimers>>

\* setAvatarState(s): nothing when s is the current state; else publish s
\* (the scheduler's subscriber runs) and play a clip for s, at once or by the
\* retry timer.
SetAvatarStateSteps(s) ==
  IF avatarState = s
    THEN UNCHANGED <<avatarState, published, bodyClip, bodyRequests, pendingBody,
                     currentBodyState, intervalId, timers, library, currentAction>>
    ELSE /\ avatarState' = s
         /\ published' = Append(published, s)
         /\ HandleBodyStateChange(s)
         /\ IF BodyIsReady
              THEN PlayRandomAnimation(s) /\ UNCHANGED pendingBody
              ELSE /\ pendingBody' = Append(pendingBody, s)
                   /\ UNCHANGED <<bodyClip, bodyRequests, currentAction>>
         /\ UNCHANGED library

SetAvatarState(s) == SetAvatarStateSteps(s) /\ UNCHANGED stopTimers

\* BodyAnimationLoaderService.stopAnimation: with a current action, fade it
\* out and set the timer of the delayed stop.
StopAnimation ==
  stopTimers' = IF currentAction # NoAction
                  THEN Append(stopTimers, [was |-> currentAction, at |-> bodyRequests])
                  ELSE stopTimers


\* ------------------------------------------------------------
\* FaceAnimationService

\* The meshes the viewer hands over (nodes having both a morphTargetDictionary
\* and morphTargetInfluences), at rest: the head knows three targets, the
\* teeth one, the eyelashes one.
MorphMeshes ==
  << [jawOpen |-> 0, mouthSmileLeft |-> 0, mouthSmileRight |-> 0],
     [jawOpen |-> 0],
     [eyeBlinkLeft |-> 0] >>

\* CSV rows of a lip-sync, by their blendShapes.* columns (CSV spelling),
\* intensities in percent.
CsvFrame  == [JawOpen |-> 50, MouthSmileLeft |-> 20, EyeBlinkLeft |-> 30]
CsvFrame2 == [JawOpen |-> 0, MouthSmileRight |-> 70]

\* morphKey.charAt(0).toLowerCase() + morphKey.slice(1)
LowerFirst(k) ==
  CASE k = "JawOpen" -> "jawOpen"
    [] k = "MouthSmileLeft" -> "mouthSmileLeft"
    [] k = "MouthSmileRight" -> "mouthSmileRight"
    [] k = "EyeBlinkLeft" -> "eyeBlinkLeft"
    [] OTHER -> k

\* CSV texts as parseCSV sees them after trim().split('\n') and split(','):
\* the header's cells, then each row's cells; a cell is <<v>> when parseFloat
\* reads the number v, <<>> when it reads none. Times in ms, intensities in
\* percent.
CsvBlobs ==
  << [header |-> <<"timeCode", "blendShapes.JawOpen">>,
      rows |-> << << <<0>>, <<20>> >>, << <<33>>, <<50>> >> >>],
     [header |-> <<"timeCode", "blendShapes.JawOpen", "blendShapes.MouthSmileLeft">>,
      rows |-> << << <<0>>, <<10>>, <<5>> >>,
                  << <<33>>, <<40>>, <<30>> >>,
                  << <<67>>, <<80>>, <<60>> >> >>],
     [header |-> <<"timeCode", "blendShapes.JawOpen">>, rows |-> <<>>],
     [header |-> <<"timeCode", "", "blendShapes.JawOpen">>,
      rows |-> << << <<34>>, <<7>> >>, << <<>>, <<9>>, <<90>> >> >>] >>

\* parseFloat(values[index]) || 0
ParseFloat(values, index) ==
  IF index \in DOMAIN values /\ values[index] # <<>> THEN values[index][1] ELSE 0

\* parseCSV: one row object per line after the header; every non-blank header
\* names a key, a later column of the same name overwriting an earlier one.
ParseCSV(blob) ==
  LET headers == blob.header
      names == {headers[j] : j \in DOMAIN headers} \ {""}
      Col(h) == CHOOSE j \in DOMAIN headers :
                  headers[j] = h /\ \A k \in DOMAIN headers : headers[k] = h => k <= j
  IN [i \in 1..Len(blob.rows) |-> [h \in names |-> ParseFloat(blob.rows[i], Col(h))]]

Abs(x) == IF x < 0 THEN -x ELSE x

\* animateLipSync's tolerance, 0.033 s
Tolerance == 33

\* lipSyncData.find(f => Math.abs(f.timeCode - currentTime) < 0.033): the
\* index of the first such frame, 0 when there is none
FindFrame(data, t) ==
  LET Near(i) == "timeCode" \in DOMAIN data[i] /\ Abs(data[i].timeCode - t) < Tolerance
  IN IF \E i \in DOMAIN data : Near(i)
       THEN CHOOSE i \in DOMAIN data : Near(i) /\ \A j \in DOMAIN data : Near(j) => i <= j
       ELSE 0

\* csvKey.replace('blendShapes.', '') for the keys that start with it
MorphKey(csvKey) ==
  CASE csvKey = "blendShapes.JawOpen" -> "JawOpen"
    [] csvKey = "blendShapes.MouthSmileLeft" -> "MouthSmileLeft"
    [] OTHER -> ""

\* the blendShapes.* columns of a parsed row, by morph key
BlendShapes(row) ==
  [k \in {MorphKey(h) : h \in DOMAIN row} \ {""} |->
     row[CHOOSE h \in DOMAIN row : MorphKey(h) = k]]

\* lipSyncData tags: <<"msg", m>> and <<"amb", a>> carry frames; a direct
\* call passes <<"call", k>>, k = 0 for an empty frame list, or <<"csv", b>>
\* for the frames parsed from CsvBlobs[b].
HasFrames(d) ==
  /\ ~(d[1] = "call" /\ d[2] = 0)
  /\ ~(d[1] = "csv" /\ ParseCSV(CsvBlobs[d[2]]) = <<>>)
FrameOf(d) == IF d[1] = "call" /\ d[2] = 2 THEN CsvFrame2 ELSE CsvFrame

\* An applyCSVBlendshapes that looks the column name up as it is spelled in
\* the CSV only.
ApplyCSVBlendshapesExactKey(inf, frame) ==
  [m \in DOMAIN inf |->
     [t \in DOMAIN inf[m] |->
        IF t \in DOMAIN frame THEN frame[t] ELSE inf[m][t]]]

\* applyCSVBlendshapes: every column whose target the mesh's dictionary
\* knows overwrites that target's intensity.
ApplyCSVBlendshapes(inf, frame) ==
  [m \in DOMAIN inf |->
     [t \in DOMAIN inf[m] |->
        IF \E k \in DOMAIN frame : LowerFirst(k) = t
          THEN frame[CHOOSE k \in DOMAIN frame : LowerFirst(k) = t]
          ELSE inf[m][t]]]

\* The oldest revision's pass: with no frame near the clock it applies the
\* last frame of the sequence.
SampleAtOrLastFrame(inf, data, t) ==
  ApplyCSVBlendshapes(inf, BlendShapes(data[IF FindFrame(data, t) = 0
                                            THEN Len(data) ELSE FindFrame(data, t)]))

\* one pass of animateLipSync over parsed frames with the clock at t
SampleAt(inf, data, t) ==
  IF FindFrame(data, t) = 0
    THEN inf
    ELSE ApplyCSVBlendshapes(inf, BlendShapes(data[FindFrame(data, t)]))

\* resetFace: morphTargetInfluences.fill(0) on every bound mesh
ResetFace(inf) == [m \in DOMAIN inf |-> [t \in DOMAIN inf[m] |-> 0]]

\* the manual controls' parameter -> blendshape names table
Mappings ==
  [eyeBlink |-> {"eyeBlinkLeft", "eyeBlinkRight"},
   eyeWide |-> {"eyeWideLeft", "eyeWideRight"},
   eyeSquint |-> {"eyeSquintLeft", "eyeSquintRight"},
   smile |-> {"mouthSmileLeft", "mouthSmileRight"},
   jawOpen |-> {"jawOpen"},
   mouthFrown |-> {"mouthFrownLeft", "mouthFrownRight"},
   browUp |-> {"browInnerUp", "browOuterUpLeft", "browOuterUpRight"},
   browDown |-> {"browDownLeft", "browDownRight"}]

\* mappings[paramName] || []
BlendshapeNames(paramName) ==
  IF paramName \in DOMAIN Mappings THEN Mappings[paramName] ELSE {}

\* An applyFaceBlendshapes that first puts every target back to rest.
ApplyFaceBlendshapesFromRest(inf, params) ==
  [m \in DOMAIN inf |->
     [t \in DOMAIN inf[m] |->
        IF \E q \in DOMAIN params : t \in BlendshapeNames(q)
          THEN params[CHOOSE q \in DOMAIN params : t \in BlendshapeNames(q)]
          ELSE 0]]

\* applyFaceBlendshapes: each parameter (0..100) sets the targets it maps to,
\* on every mesh whose dictionary knows them, to value / 100 (here: percent).
ApplyFaceBlendshapes(inf, params) ==
  [m \in DOMAIN inf |->
     [t \in DOMAIN inf[m] |->
        IF \E q \in DOMAIN params : t \in BlendshapeNames(q)
          THEN params[CHOOSE q \in DOMAIN params : t \in BlendshapeNames(q)]
          ELSE inf[m][t]]]

\* A stopLipSync that forgets the id without cancelling its callback.
CancelAnimationFrameForgotten == [raf EXCEPT !.held = FALSE]

\* cancelAnimationFrame(this.animationFrameId): a no-op on null and on an id
\* whose callback has run.
CancelAnimationFrame ==
  IF animationFrameId /\ raf.held
    THEN [pending |-> raf.pending - 1, held |-> FALSE]
    ELSE [raf EXCEPT !.held = FALSE]

\* requestAnimationFrame(this.animateLipSync) after the requests r
RequestAnimationFrame(r) == [pending |-> r.pending + 1, held |-> TRUE]

\* A stopLipSync that cancels the callback and leaves the face as it is.
FaceStopLipSyncKeepFace ==
  /\ animationFrameId' = FALSE
  /\ raf' = CancelAnimationFrame
  /\ isAnimating' = FALSE
  /\ UNCHANGED <<faceDirty, morphTargetInfluences, lipSyncData>>

\* stopLipSync: cancel the pending animation frame, isAnimating = false,
\* resetFace.
FaceStopLipSync ==
  /\ animationFrameId' = FALSE
  /\ raf' = CancelAnimationFrame
  /\ isAnimating' = FALSE
  /\ faceDirty' = FALSE
  /\ morphTargetInfluences' = ResetFace(morphTargetInfluences)
  /\ UNCHANGED lipSyncData

\* startLipSync: stopLipSync, load the frames, then the first animateLipSync
\* runs at once, applies the frame it finds at the clock's position and
\* requests the next animation frame.
\* found: the first animateLipSync finds a frame within 0.033 s of the clock.
FaceStartLipSyncAt(d, found) ==
  /\ lipSyncData' = d
  /\ isAnimating' = TRUE
  /\ animationFrameId' = HasFrames(d)
  /\ raf' = IF HasFrames(d) THEN RequestAnimationFrame(CancelAnimationFrame)
                            ELSE CancelAnimationFrame
  /\ faceDirty' = HasFrames(d)
  /\ morphTargetInfluences' =
       IF HasFrames(d) /\ found
         THEN ApplyCSVBlendshapes(ResetFace(morphTargetInfluences), FrameOf(d))
         ELSE ResetFace(morphTargetInfluences)

FaceStartLipSync(d) == FaceStartLipSyncAt(d, TRUE)

\* Orchestrator pass-through (face only).
StartLipSync(d) == FaceStartLipSync(d)
StopLipSync == FaceStopLipSync

\* ------------------------------------------------------------
\* AudioPlaybackService

NewElem(owner) ==
  [st |-> "loading", owner |-> owner, loadPending |-> FALSE, tuPending |-> FALSE,
   currentTime |-> 0]

\* pause() and currentTime = 0 on an element: a pending play() is rejected
\* (AbortError) while the load goes on; a loaded element seeks, which fires a
\* late timeupdate; a playing element never fires 'ended' afterwards.
Paused(e) ==
  CASE e.st = "loading" -> [e EXCEPT !.st = "aborted", !.loadPending = TRUE]
    [] e.st = "playing" -> [e EXCEPT !.st = "paused", !.tuPending = TRUE,
                                     !.currentTime = 0]
    [] e.st = "ended"   -> [e EXCEPT !.tuPending = TRUE, !.currentTime = 0]
    [] OTHER            -> [e EXCEPT !.currentTime = 0]

StoppedElems == IF audio = 0 THEN elems ELSE [elems EXCEPT ![audio] = Paused(@)]

AudioStop ==
  /\ elems' = StoppedElems
  /\ audio' = 0
  /\ pubIsPlaying' = IF audio = 0 THEN pubIsPlaying ELSE FALSE

AudioPlayAudio(owner) ==
  /\ elems' = Append(StoppedElems, NewElem(owner))
  /\ audio' = Len(elems) + 1
  /\ pubIsPlaying' = IF audio = 0 THEN pubIsPlaying ELSE FALSE

IsPlaying == pubIsPlaying

\* getCurrentTime: this.audio?.currentTime || 0
GetCurrentTime == IF audio = 0 THEN 0 ELSE elems[audio].currentTime

\* ------------------------------------------------------------
\* ChatInterfaceComponent

\* The avatar is idle and nothing is in flight.
Quiet ==
  /\ avatarState = "idle"
  /\ sendPc \in {"none", "failed"}
  /\ replayTimers = <<>>
  /\ \A p \in DOMAIN playbacks : playbacks[p].pc = "done"
  /\ \A a \in DOMAIN ambients : ambients[a].pc \in {"done", "failed"}
  /\ audio = 0 \/ elems[audio].st \in {"ended", "error"}
  /\ ~isAnimating

\* The user acts once the viewer has finished loading the avatar.
UserMayAct == opsLeft > 0 /\ bodyLoad = "started"

Moves(op, arg) ==
  /\ opsLeft' = opsLeft - 1
  /\ lastOp' = [op |-> op, arg |-> arg, n |-> lastOp.n + 1,
                mark |-> Len(published), quiet |-> Quiet]
  /\ UNCHANGED attempt

Acts(op, arg) == Moves(op, arg) /\ UNCHANGED sampled

UserActs(op) == Acts(op, "")

NewPlayback(m, req) ==
  [msg |-> m, id |-> currentPlaybackId, req |-> req, pc |-> "delay50", exit |-> "none"]

\* A sendMessage without the isProcessing guard.
SendMessageWhileProcessing ==
  /\ UserMayAct
  /\ AudioStop
  /\ StopLipSync
  /\ currentPlaybackId' = currentPlaybackId + 1
  /\ messages' = Append(ClearPlaying(messages), Message("user", NoMedia, FALSE))
  /\ isProcessing' = TRUE
  /\ sendPc' = "delay100"
  /\ UserActs("send")
  /\ UNCHANGED <<replayTimers, playbacks, orchVars, ambVars, bodyLoad>>

\* sendMessage, up to its first await (the 100 ms delay).  The text is
\* non-empty and no send is being processed; stopAllPlayback, token
\* increment, user message, isProcessing.
SendMessage ==
  /\ UserMayAct
  /\ ~isProcessing
  /\ AudioStop
  /\ StopLipSync
  /\ currentPlaybackId' = currentPlaybackId + 1
  /\ messages' = Append(ClearPlaying(messages), Message("user", NoMedia, FALSE))
  /\ isProcessing' = TRUE
  /\ sendPc' = "delay100"
  /\ UserActs("send")
  /\ UNCHANGED <<replayTimers, playbacks, orchVars, ambVars, bodyLoad>>

\* what the user may have typed when sendMessage is called (no images)
InputMessages == {"", "  ", "hello"}

\* inputMessage.trim()
Trim(text) == IF text = "  " THEN "" ELSE text

\* sendMessage's guards: with nothing to send, or while a send is being
\* processed, it returns at once.
SendMessageReturns(text) ==
  /\ UserMayAct
  /\ Trim(text) = "" \/ isProcessing
  /\ Acts("sendReturns", text)
  /\ UNCHANGED <<chatVars, audioVars, faceVars, orchVars, ambVars, bodyLoad>>

\* after the 100 ms delay: thinking, then the backend call is awaited
SendDelayEnd ==
  /\ sendPc = "delay100"
  /\ SetAvatarState("thinking")
  /\ sendPc' = "backend"
  /\ UNCHANGED <<currentPlaybackId, isProcessing, messages, replayTimers, playbacks,
                 audioVars, faceVars, ambVars, bodyLoad, ghostVars>>

\* The backend call resolved with response r: the assistant message is pushed,
\* isProcessing cleared, the token is read, and playMessageAudio runs up to its
\* 50 ms delay (it returns at once when the message has no audioUrl).
BackendSuccess(r) ==
  /\ sendPc = "backend"
  /\ sendPc' = "none"
  /\ isProcessing' = FALSE
  /\ IF r.audio
       THEN /\ AudioStop
            /\ StopLipSync
            /\ messages' = Append(ClearPlaying(messages),
                                  [Message("assistant", r, FALSE) EXCEPT !.isPlaying = TRUE])
            /\ playbacks' = Append(playbacks,
                                   NewPlayback(Len(messages) + 1, currentPlaybackId))
       ELSE /\ messages' = Append(messages, Message("assistant", r, FALSE))
            /\ UNCHANGED <<playbacks, audioVars, faceVars>>
  /\ UNCHANGED <<currentPlaybackId, replayTimers, orchVars, ambVars, bodyLoad, ghostVars>>

\* The catch block without its return to idle.
BackendFailureNoIdle ==
  /\ sendPc = "backend"
  /\ sendPc' = "failed"
  /\ isProcessing' = FALSE
  /\ messages' = Append(messages, Message("assistant", NoMedia, TRUE))
  /\ UNCHANGED <<currentPlaybackId, replayTimers, playbacks, orchVars,
                 audioVars, faceVars, ambVars, bodyLoad, ghostVars>>

\* The backend call rejected: the catch block.
BackendFailure ==
  /\ sendPc = "backend"
  /\ sendPc' = "failed"
  /\ isProcessing' = FALSE
  /\ messages' = Append(messages, Message("assistant", NoMedia, TRUE))
  /\ SetAvatarState("idle")
  /\ UNCHANGED <<currentPlaybackId, replayTimers, playbacks,
                 audioVars, faceVars, ambVars, bodyLoad, ghostVars>>

\* replayMessage(message): stop everything, increment the token, arm the timer.
ReplayMessage(m) ==
  /\ UserMayAct
  /\ m \in DOMAIN messages
  /\ messages[m].audio
  /\ AudioStop
  /\ StopLipSync
  /\ messages' = ClearPlaying(messages)
  /\ currentPlaybackId' = currentPlaybackId + 1
  /\ replayTimers' = Append(replayTimers, [msg |-> m, req |-> currentPlaybackId + 1])
  /\ Acts("replay", sendPc)
  /\ UNCHANGED <<isProcessing, sendPc, playbacks, orchVars, ambVars, bodyLoad>>

\* The replay timer's callback: playMessageAudio(message, this.currentPlaybackId,
\* true), the token being read when the callback runs; up to the 50 ms delay.
ReplayTimerFire ==
  /\ replayTimers # <<>>
  /\ LET t == Head(replayTimers) IN
       /\ AudioStop
       /\ StopLipSync
       /\ messages' = [ClearPlaying(messages) EXCEPT ![t.msg].isPlaying = TRUE]
       /\ playbacks' = Append(playbacks, NewPlayback(t.msg, t.req))
  /\ replayTimers' = Tail(replayTimers)
  /\ UNCHANGED <<currentPlaybackId, isProcessing, sendPc, orchVars, ambVars,
                 bodyLoad, ghostVars>>

\* playMessageAudio after its 50 ms delay: the second token check, then
\* lip-sync (frames present) or talking (audio only), then playAudio.
PlaybackDelayEnd(p) ==
  /\ p \in DOMAIN playbacks
  /\ playbacks[p].pc = "delay50"
  /\ LET pb == playbacks[p] IN
     IF pb.id # currentPlaybackId
       THEN /\ messages' = [messages EXCEPT ![pb.msg].isPlaying = FALSE]
            /\ playbacks' = [playbacks EXCEPT ![p].pc = "done", ![p].exit = "cancelled"]
            /\ UNCHANGED <<audioVars, faceVars, orchVars>>
       ELSE /\ IF messages[pb.msg].csv
                 THEN StartLipSync(<<"msg", pb.msg>>) /\ UNCHANGED orchVars
                 ELSE SetAvatarState("talking") /\ UNCHANGED faceVars
            /\ AudioPlayAudio(<<"pb", p>>)
            /\ playbacks' = [playbacks EXCEPT ![p].pc = "audio"]
            /\ UNCHANGED messages
  /\ UNCHANGED <<currentPlaybackId, isProcessing, sendPc, replayTimers, ambVars,
                 bodyLoad, ghostVars>>

\* The finally block without its token check.
PlaybackFinallyUnchecked(p) ==
  /\ messages' = [messages EXCEPT ![playbacks[p].msg].isPlaying = FALSE]
  /\ StopLipSync
  /\ SetAvatarState("idle")
  /\ playbacks' = [playbacks EXCEPT ![p].pc = "done", ![p].exit = "cleanup"]

\* playMessageAudio once its playAudio promise has settled (resolved or
\* rejected, the catch only logs): the finally block.
PlaybackFinally(p) ==
  IF playbacks[p].id = currentPlaybackId
    THEN /\ messages' = [messages EXCEPT ![playbacks[p].msg].isPlaying = FALSE]
         /\ StopLipSync
         /\ SetAvatarState("idle")
         /\ playbacks' = [playbacks EXCEPT ![p].pc = "done", ![p].exit = "cleanup"]
    ELSE /\ playbacks' = [playbacks EXCEPT ![p].pc = "done", ![p].exit = "stale"]
         /\ UNCHANGED <<messages, faceVars, orchVars>>

\* ------------------------------------------------------------
\* AmbientAudioService

Available(st) == {c \in DOMAIN ambientClips : ambientClips[c].forState = st}

\* lost: one of the clip's resources could not be loaded
NewAmbient(by) == [pc |-> "fetchCsv", by |-> by, lost |-> FALSE]

\* The roll turned down also when it equals the chance.
ProceedsStrict(c, roll) ==
  /\ enabled
  /\ ~IsPlaying
  /\ currentBodyState \in {"idle", "thinking"}
  /\ c \in Available(currentBodyState)
  /\ roll < ambientClips[c].chance

\* Whether tryPlayAmbient gets past every guard and the roll.
Proceeds(c, roll) ==
  /\ enabled
  /\ ~IsPlaying
  /\ currentBodyState \in {"idle", "thinking"}
  /\ c \in Available(currentBodyState)
  /\ ~(roll > ambientClips[c].chance)

\* tryPlayAmbient without its test of the body state and without the filter
\* of the catalog by state (the first clip stands in when none matches).
TryPlayAmbientAnyState(c, roll) ==
  IF ~enabled \/ IsPlaying
    THEN UNCHANGED ambVars
    ELSE IF ~(roll > ambientClips[IF c = 0 THEN 1 ELSE c].chance)
      THEN /\ ambIsPlaying' = TRUE
           /\ ambients' = Append(ambients, [pc |-> "fetchCsv", by |-> "timer"])
           /\ nAmbient' = nAmbient + 1
           /\ UNCHANGED enabled
      ELSE /\ ambIsPlaying' = FALSE
           /\ UNCHANGED <<enabled, ambients, nAmbient>>

\* tryPlayAmbient up to the first await of playAmbientClip.  Past the enabled
\* and audio guards, a set in-flight flag is reset ("stuck flag") before it is
\* tested.
TryPlayAmbient(c, roll) ==
  IF ~enabled \/ IsPlaying
    THEN UNCHANGED ambVars
    ELSE IF Proceeds(c, roll)
      THEN /\ ambIsPlaying' = TRUE
           /\ ambients' = Append(ambients, NewAmbient("timer"))
           /\ nAmbient' = nAmbient + 1
           /\ UNCHANGED enabled
      ELSE /\ ambIsPlaying' = FALSE
           /\ UNCHANGED <<enabled, ambients, nAmbient>>

\* The clips the random pick can fall on (0: no clip matches the state).
ClipChoices ==
  IF Available(currentBodyState) = {} THEN {0} ELSE Available(currentBodyState)

\* The periodic timer's callback with pick c and roll: tryPlayAmbient, then
\* the timer is re-armed.
TimerCallback(c, roll) ==
  /\ timers.pending > 0
  /\ Proceeds(c, roll) => nAmbient < MaxAmbient
  /\ TryPlayAmbient(c, roll)
  /\ intervalId' = TRUE
  /\ timers' = [pending |-> (timers.pending - 1) + 1, held |-> TRUE]
  /\ UNCHANGED <<avatarState, published, bodyClip, bodyRequests, pendingBody,
                 currentBodyState, library, currentAction, stopTimers>>
  /\ UNCHANGED <<chatVars, audioVars, faceVars, bodyLoad, opsLeft, lastOp>>

AmbientTimerFire ==
  /\ \E roll \in Rolls : \E c \in ClipChoices : TimerCallback(c, roll)
  /\ UNCHANGED <<attempt, sampled>>

\* The same callback, with the attempt put on record.
AmbientTimerObserved ==
  /\ attempt.n < MaxAttempts
  /\ \E roll \in Rolls : \E c \in ClipChoices :
       /\ TimerCallback(c, roll)
       /\ attempt' = [n |-> attempt.n + 1, body |-> currentBodyState, clip |-> c,
                      roll |-> roll, passed |-> enabled /\ ~IsPlaying]
  /\ UNCHANGED sampled

\* playSpecificClip (manual trigger) when no clip is marked in flight.
PlaySpecificClip ==
  /\ UserMayAct
  /\ ~ambIsPlaying
  /\ ambIsPlaying' = TRUE
  /\ ambients' = Append(ambients, NewAmbient("manual"))
  /\ UserActs("manual")
  /\ UNCHANGED <<enabled, nAmbient, chatVars, audioVars, faceVars, orchVars, bodyLoad>>

\* The oldest playAmbientClip: no test of the CSV response and no check of the
\* audio resource; lip-sync and audio start whatever the fetch returned.
AmbientCsvFetchedUnchecked(a, ok) ==
  /\ a \in DOMAIN ambients
  /\ ambients[a].pc = "fetchCsv"
  /\ FaceStartLipSync(<<"amb", a>>)
  /\ AudioPlayAudio(<<"amb", a>>)
  /\ ambients' = [ambients EXCEPT ![a].pc = "audio", ![a].lost = ~ok]
  /\ UNCHANGED <<ambIsPlaying, enabled, nAmbient, chatVars, orchVars, bodyLoad, ghostVars>>

\* playAmbientClip: the CSV fetch settled (ok: found and read; else the throw
\* lands in catch and finally).
AmbientCsvFetched(a, ok) ==
  /\ a \in DOMAIN ambients
  /\ ambients[a].pc = "fetchCsv"
  /\ IF ok
       THEN /\ ambients' = [ambients EXCEPT ![a].pc = "fetchAudio"]
            /\ UNCHANGED ambIsPlaying
       ELSE /\ ambients' = [ambients EXCEPT ![a].pc = "failed", ![a].lost = TRUE]
            /\ ambIsPlaying' = FALSE
  /\ UNCHANGED <<enabled, nAmbient, chatVars, audioVars, faceVars, orchVars,
                 bodyLoad, ghostVars>>

\* The older playAmbientClip, whose lip-sync went through an orchestrator
\* that published talking.
AmbientAudioCheckedTalking(a, ok) ==
  /\ a \in DOMAIN ambients
  /\ ambients[a].pc = "fetchAudio"
  /\ IF ok
       THEN /\ FaceStartLipSync(<<"amb", a>>)
            /\ SetAvatarState("talking")
            /\ AudioPlayAudio(<<"amb", a>>)
            /\ ambients' = [ambients EXCEPT ![a].pc = "audio"]
            /\ UNCHANGED ambIsPlaying
       ELSE /\ ambients' = [ambients EXCEPT ![a].pc = "failed", ![a].lost = TRUE]
            /\ ambIsPlaying' = FALSE
            /\ UNCHANGED <<audioVars, faceVars, orchVars>>
  /\ UNCHANGED <<enabled, nAmbient, chatVars, bodyLoad, ghostVars>>

\* playAmbientClip: the HEAD request for the audio settled; on success face
\* lip-sync starts and playAudio is called.
AmbientAudioChecked(a, ok) ==
  /\ a \in DOMAIN ambients
  /\ ambients[a].pc = "fetchAudio"
  /\ IF ok
       THEN /\ FaceStartLipSync(<<"amb", a>>)
            /\ AudioPlayAudio(<<"amb", a>>)
            /\ ambients' = [ambients EXCEPT ![a].pc = "audio"]
            /\ UNCHANGED ambIsPlaying
       ELSE /\ ambients' = [ambients EXCEPT ![a].pc = "failed", ![a].lost = TRUE]
            /\ ambIsPlaying' = FALSE
            /\ UNCHANGED <<audioVars, faceVars>>
  /\ UNCHANGED <<enabled, nAmbient, chatVars, orchVars, bodyLoad, ghostVars>>

\* playAmbientClip once its playAudio promise has settled.
AmbientSettled(a, outcome) ==
  /\ IF outcome = "resolved"
       THEN FaceStopLipSync
       ELSE UNCHANGED faceVars
  /\ ambIsPlaying' = FALSE
  /\ ambients' = [ambients EXCEPT ![a].pc = IF outcome = "resolved" THEN "done" ELSE "failed"]
  /\ UNCHANGED <<enabled, nAmbient>>

\* A setEnabled that records the flag and leaves the timer alone.
SetEnabledFlagOnly(b) ==
  /\ UserMayAct
  /\ enabled' = b
  /\ UserActs(IF b THEN "enable" ELSE "disable")
  /\ UNCHANGED <<ambIsPlaying, ambients, nAmbient, chatVars, audioVars, faceVars,
                 orchVars, bodyLoad>>

\* setEnabled: record the flag; startPeriodicCheck or stopPeriodicCheck.
SetEnabled(b) ==
  /\ UserMayAct
  /\ enabled' = b
  /\ intervalId' = b
  /\ timers' = IF b THEN StartPeriodicCheck ELSE StopPeriodicCheck
  /\ UserActs(IF b THEN "enable" ELSE "disable")
  /\ UNCHANGED <<ambIsPlaying, ambients, nAmbient, chatVars, audioVars, faceVars,
                 avatarState, published, bodyClip, bodyRequests, pendingBody,
                 currentBodyState, bodyLoad, library, currentAction, stopTimers>>

\* ------------------------------------------------------------
\* media element events and the continuations they resume

\* A playMessageAudio that cleans up after the await only, so that a rejected
\* playAudio skips the cleanup.
ContinueOnSuccessOnly(owner, outcome) ==
  IF owner[1] = "pb"
    THEN /\ IF outcome = "resolved"
              THEN PlaybackFinally(owner[2])
              ELSE /\ playbacks' = [playbacks EXCEPT ![owner[2]].pc = "done",
                                                      ![owner[2]].exit = "failed"]
                   /\ UNCHANGED <<messages, faceVars, orchVars>>
         /\ UNCHANGED <<currentPlaybackId, isProcessing, sendPc, replayTimers, ambVars>>
    ELSE /\ AmbientSettled(owner[2], outcome)
         /\ UNCHANGED <<chatVars, orchVars>>

\* The code awaiting the promise of an element, resumed when it settles.
Continue(owner, outcome) ==
  CASE owner[1] = "pb" ->
         /\ PlaybackFinally(owner[2])
         /\ UNCHANGED <<currentPlaybackId, isProcessing, sendPc, replayTimers, ambVars>>
    [] owner[1] = "amb" ->
         /\ AmbientSettled(owner[2], outcome)
         /\ UNCHANGED <<chatVars, orchVars>>
    [] OTHER -> UNCHANGED <<chatVars, faceVars, orchVars, ambVars>>

\* 'loadedmetadata' of the current element (playback starts)
AudioLoaded ==
  /\ audio # 0
  /\ elems[audio].st = "loading"
  /\ elems' = [elems EXCEPT ![audio].st = "playing"]
  /\ pubIsPlaying' = TRUE
  /\ UNCHANGED <<audio, chatVars, faceVars, orchVars, ambVars, bodyLoad, ghostVars>>

\* 'timeupdate' of the current element while it plays: the media clock has
\* moved on
AudioTimeUpdate ==
  /\ audio # 0
  /\ elems[audio].st = "playing"
  /\ elems' = [elems EXCEPT ![audio].currentTime = IF @ < MaxTime THEN @ + 1 ELSE @]
  /\ pubIsPlaying' = TRUE
  /\ UNCHANGED <<audio, chatVars, faceVars, orchVars, ambVars, bodyLoad, ghostVars>>

\* 'ended': the stream ran to its end; the promise resolves
AudioEnded ==
  /\ audio # 0
  /\ elems[audio].st = "playing"
  /\ elems' = [elems EXCEPT ![audio].st = "ended", ![audio].currentTime = MaxTime]
  /\ pubIsPlaying' = FALSE
  /\ Continue(elems[audio].owner, "resolved")
  /\ UNCHANGED <<audio, bodyLoad, ghostVars>>

\* 'error' on the current element; the promise rejects
AudioError ==
  /\ audio # 0
  /\ elems[audio].st \in {"loading", "playing"}
  /\ elems' = [elems EXCEPT ![audio].st = "error"]
  /\ pubIsPlaying' = FALSE
  /\ Continue(elems[audio].owner, "rejected")
  /\ UNCHANGED <<audio, bodyLoad, ghostVars>>

\* play() of the current element is refused (the browser's autoplay policy):
\* .catch(reject) rejects the promise and nothing else; the element goes on
\* loading and its 'loadedmetadata' or 'error' handler runs later.
AudioPlayRefused ==
  /\ audio # 0
  /\ elems[audio].st = "loading"
  /\ elems' = [elems EXCEPT ![audio].st = "rejected", ![audio].loadPending = TRUE]
  /\ Continue(elems[audio].owner, "rejected")
  /\ UNCHANGED <<audio, pubIsPlaying, bodyLoad, ghostVars>>

\* play() of an element paused before it started rejects (AbortError)
AudioPlayAborted(e) ==
  /\ e \in DOMAIN elems
  /\ elems[e].st = "aborted"
  /\ elems' = [elems EXCEPT ![e].st = "rejected"]
  /\ Continue(elems[e].owner, "rejected")
  /\ UNCHANGED <<audio, pubIsPlaying, bodyLoad, ghostVars>>

\* The load of a superseded element completes after all: its 'loadedmetadata'
\* handler reads this.audio!.duration (it throws when this.audio is null,
\* before publishing) or its 'error' handler publishes inactive.
LateLoadEvent(e, okLoad) ==
  /\ e \in DOMAIN elems
  /\ elems[e].st = "rejected"
  /\ elems[e].loadPending
  /\ elems' = [elems EXCEPT ![e].loadPending = FALSE]
  /\ pubIsPlaying' = IF okLoad THEN (IF audio # 0 THEN TRUE ELSE pubIsPlaying) ELSE FALSE
  /\ UNCHANGED <<audio, chatVars, faceVars, orchVars, ambVars, bodyLoad, ghostVars>>

\* 'timeupdate' of a superseded element (the seek to 0 in stop()): the handler
\* only tests that this.audio is set.
LateTimeUpdate(e) ==
  /\ e \in DOMAIN elems
  /\ elems[e].tuPending
  /\ elems' = [elems EXCEPT ![e].tuPending = FALSE]
  /\ pubIsPlaying' = IF audio # 0 THEN TRUE ELSE pubIsPlaying
  /\ UNCHANGED <<audio, chatVars, faceVars, orchVars, ambVars, bodyLoad, ghostVars>>

\* ------------------------------------------------------------
\* animation frames, body library

\* The browser runs one pending callback: the one whose id the field holds,
\* or another one.
Fired(r, theHeld) ==
  [pending |-> r.pending - 1, held |-> r.held /\ ~theHeld]

MayFire(r, theHeld) ==
  IF theHeld THEN r.held ELSE r.pending > (IF r.held THEN 1 ELSE 0)

\* FaceAnimationService.animateLipSync as a requestAnimationFrame callback:
\* with no frames it returns at once and requests nothing; else it applies
\* the frame it finds and requests the next animation frame.
FaceTick ==
  /\ lipSyncData[1] # "csv"
  /\ \E theHeld \in BOOLEAN :
       /\ MayFire(raf, theHeld)
       /\ IF HasFrames(lipSyncData)
            THEN /\ raf' = RequestAnimationFrame(Fired(raf, theHeld))
                 /\ animationFrameId' = TRUE
                 /\ faceDirty' = TRUE
                 /\ morphTargetInfluences' =
                      ApplyCSVBlendshapes(morphTargetInfluences, FrameOf(lipSyncData))
            ELSE /\ raf' = Fired(raf, theHeld)
                 /\ UNCHANGED <<animationFrameId, faceDirty, morphTargetInfluences>>
  /\ UNCHANGED <<isAnimating, lipSyncData,
                 chatVars, audioVars, orchVars, ambVars, bodyLoad, ghostVars>>

\* the body library finished loading (isLoaded = true)
BodyLoaded ==
  /\ bodyLoad = "loading"
  /\ bodyLoad' = "ready"
  /\ morphTargetInfluences' = MorphMeshes
  /\ UNCHANGED <<isAnimating, animationFrameId, raf, lipSyncData, faceDirty,
                 chatVars, audioVars, orchVars, ambVars, ghostVars>>

\* the viewer's ready$ subscriber: setAvatarState('idle')
ViewerReady ==
  /\ bodyLoad = "ready"
  /\ bodyLoad' = "started"
  /\ SetAvatarState("idle")
  /\ UNCHANGED <<chatVars, audioVars, faceVars, ambVars, ghostVars>>

\* the setTimeout(1000) retry of a setAvatarState made before readiness
PendingBodyFire ==
  /\ pendingBody # <<>>
  /\ pendingBody' = Tail(pendingBody)
  /\ IF BodyIsReady
       THEN PlayRandomAnimation(Head(pendingBody))
       ELSE UNCHANGED <<bodyClip, bodyRequests, currentAction>>
  /\ UNCHANGED <<avatarState, published, currentBodyState, intervalId, timers, library,
                 stopTimers,
                 chatVars, audioVars, faceVars, ambVars, bodyLoad, ghostVars>>

\* A caller (the chat component, the viewer) invokes setAvatarState(s).
CallSetAvatarState(s) ==
  /\ opsLeft > 0
  /\ SetAvatarState(s)
  /\ Acts("setAvatarState", s)
  /\ UNCHANGED <<chatVars, audioVars, faceVars, ambVars, bodyLoad>>

\* The face as a caller of stopLipSync finds it: posed when some intensity is
\* non-zero, running when a lip-sync is animating.
FacePosed == \E m \in DOMAIN morphTargetInfluences :
               \E t \in DOMAIN morphTargetInfluences[m] : morphTargetInfluences[m][t] # 0

FaceSeen ==
  IF FacePosed
    THEN (IF isAnimating THEN "posed-running" ELSE "posed-stopped")
    ELSE (IF isAnimating THEN "neutral-running" ELSE "neutral-stopped")

\* The older orchestrator's startLipSync, which published talking itself.
CallStartLipSyncTalking(k, found) ==
  /\ opsLeft > 0
  /\ FaceStartLipSyncAt(<<"call", k>>, found)
  /\ SetAvatarState("talking")
  /\ Acts("startLipSync", "")
  /\ UNCHANGED <<chatVars, audioVars, ambVars, bodyLoad>>

\* A caller invokes the orchestrator's startLipSync(csvData), which forwards
\* to the face player; k = 0 passes an empty frame list.
CallStartLipSync(k, found) ==
  /\ opsLeft > 0
  /\ FaceStartLipSyncAt(<<"call", k>>, found)
  /\ Acts("startLipSync", "")
  /\ UNCHANGED <<chatVars, audioVars, orchVars, ambVars, bodyLoad>>

\* A caller invokes the orchestrator's stopLipSync(), which forwards to the
\* face player.
CallStopLipSync ==
  /\ opsLeft > 0
  /\ StopLipSync
  /\ Acts("stopLipSync", FaceSeen)
  /\ UNCHANGED <<chatVars, audioVars, orchVars, ambVars, bodyLoad>>

\* values the manual face controls send (percent)
FaceParameters ==
  { [jawOpen |-> 100], [smile |-> 40, eyeBlink |-> 100], [mouthSmileLeft |-> 70] }

\* the name a call's parameter object is recorded under
ParamsName(params) ==
  CASE params = [jawOpen |-> 100] -> "jaw"
    [] params = [smile |-> 40, eyeBlink |-> 100] -> "smileBlink"
    [] OTHER -> "unmapped"

\* The manual controls call applyFaceBlendshapes(params) through the
\* orchestrator.
CallApplyFaceBlendshapes(params) ==
  /\ opsLeft > 0
  /\ morphTargetInfluences' = ApplyFaceBlendshapes(morphTargetInfluences, params)
  /\ Acts("applyFaceBlendshapes", ParamsName(params))
  /\ UNCHANGED <<isAnimating, animationFrameId, raf, lipSyncData, faceDirty,
                 chatVars, audioVars, orchVars, ambVars, bodyLoad>>

\* ------------------------------------------------------------
\* the system

UserNext ==
  \/ SendMessage
  \/ \E m \in DOMAIN messages : ReplayMessage(m)
  \/ PlaySpecificClip
  \/ \E b \in BOOLEAN : SetEnabled(b)

SystemNext ==
  \/ SendDelayEnd
  \/ \E r \in Responses : BackendSuccess(r)
  \/ BackendFailure
  \/ ReplayTimerFire
  \/ \E p \in DOMAIN playbacks : PlaybackDelayEnd(p)
  \/ AmbientTimerFire
  \/ \E a \in DOMAIN ambients, ok \in BOOLEAN : AmbientCsvFetched(a, ok)
  \/ \E a \in DOMAIN ambients, ok \in BOOLEAN : AmbientAudioChecked(a, ok)
  \/ AudioLoaded
  \/ AudioTimeUpdate
  \/ AudioEnded
  \/ AudioError
  \/ AudioPlayRefused
  \/ \E e \in DOMAIN elems : AudioPlayAborted(e)
  \/ \E e \in DOMAIN elems, ok \in BOOLEAN : LateLoadEvent(e, ok)
  \/ \E e \in DOMAIN elems : LateTimeUpdate(e)
  \/ FaceTick
  \/ BodyLoaded
  \/ ViewerReady

Next == UserNext \/ SystemNext

\* The whole system; the user acts once the avatar has loaded.
Spec == Init /\ [][Next]_vars

\* The chat on its own: the ambient timer does not fire and the ambient
\* controls are left alone, which leaves room for one more user action.
ChatNext ==
  \/ SendMessage
  \/ \E text \in InputMessages : SendMessageReturns(text)
  \/ \E m \in DOMAIN messages : ReplayMessage(m)
  \/ SendDelayEnd
  \/ \E r \in Responses : BackendSuccess(r)
  \/ BackendFailure
  \/ ReplayTimerFire
  \/ \E p \in DOMAIN playbacks : PlaybackDelayEnd(p)
  \/ AudioLoaded
  \/ AudioTimeUpdate
  \/ AudioEnded
  \/ AudioError
  \/ AudioPlayRefused
  \/ \E e \in DOMAIN elems : AudioPlayAborted(e)
  \/ \E e \in DOMAIN elems, ok \in BOOLEAN : LateLoadEvent(e, ok)
  \/ \E e \in DOMAIN elems : LateTimeUpdate(e)
  \/ FaceTick
  \/ BodyLoaded
  \/ ViewerReady

InitChat == InitWith(MaxChatOps)

SpecChat == InitChat /\ [][ChatNext]_vars

\* The orchestrator on its own, called at any time, also while the body
\* library is still loading.
OrchNext ==
  \/ \E s \in AvatarStates : CallSetAvatarState(s)
  \/ BodyLoaded
  \/ ViewerReady
  \/ PendingBodyFire

InitOrch == InitWith(MaxCalls)

SpecOrch == InitOrch /\ [][OrchNext]_vars

\* The ambient scheduler on its own: the body state is changed by direct
\* setAvatarState calls, and the timer's attempts are put on record.
AmbNext ==
  \/ \E s \in AvatarStates : CallSetAvatarState(s)
  \/ \E b \in BOOLEAN : SetEnabled(b)
  \/ PlaySpecificClip
  \/ AmbientTimerObserved
  \/ \E a \in DOMAIN ambients, ok \in BOOLEAN : AmbientCsvFetched(a, ok)
  \/ \E a \in DOMAIN ambients, ok \in BOOLEAN : AmbientAudioChecked(a, ok)
  \/ AudioLoaded
  \/ AudioTimeUpdate
  \/ AudioEnded
  \/ AudioError
  \/ AudioPlayRefused
  \/ \E e \in DOMAIN elems : AudioPlayAborted(e)
  \/ \E e \in DOMAIN elems, ok \in BOOLEAN : LateLoadEvent(e, ok)
  \/ \E e \in DOMAIN elems : LateTimeUpdate(e)
  \/ FaceTick
  \/ BodyLoaded
  \/ ViewerReady
  \/ PendingBodyFire

InitAmb == InitWith(MaxAmbOps)

SpecAmb == InitAmb /\ [][AmbNext]_vars

\* positions (ms) the media clock may show when animateLipSync reads it
ClockPositions == {20, 34, 60, 100}

\* what getCurrentTime() may return now: 0 with no element or an element at
\* its start, a later position otherwise
PositionsNow == IF GetCurrentTime = 0 THEN {0} ELSE ClockPositions

\* A caller invokes startLipSync with the frames parseCSV made of CsvBlobs[b];
\* the first animateLipSync reads the clock at t.
CallStartLipSyncCsv(b, t) ==
  /\ opsLeft > 0
  /\ t \in PositionsNow
  /\ LET data == ParseCSV(CsvBlobs[b]) IN
       /\ lipSyncData' = <<"csv", b>>
       /\ isAnimating' = TRUE
       /\ animationFrameId' = (data # <<>>)
       /\ raf' = IF data # <<>> THEN RequestAnimationFrame(CancelAnimationFrame)
                                ELSE CancelAnimationFrame
       /\ faceDirty' = (data # <<>>)
       /\ morphTargetInfluences' =
            IF data = <<>>
              THEN ResetFace(morphTargetInfluences)
              ELSE SampleAt(ResetFace(morphTargetInfluences), data, t)
       /\ sampled' = IF data = <<>>
                       THEN [sampled EXCEPT !.src = b,
                                            !.cut = @ + (IF raf.pending > 0 THEN 1 ELSE 0)]
                       ELSE [n |-> sampled.n + 1, pos |-> t, hit |-> FindFrame(data, t),
                             src |-> b, of |-> b,
                             cut |-> sampled.cut + (IF raf.pending > 0 THEN 1 ELSE 0)]
  /\ Moves("startLipSync", "csv")
  /\ UNCHANGED <<chatVars, audioVars, orchVars, ambVars, bodyLoad>>

\* animateLipSync as a requestAnimationFrame callback over parsed frames, the
\* clock at t
FaceTickAt(t) ==
  /\ lipSyncData[1] = "csv"
  /\ sampled.n < MaxSamples
  /\ t \in PositionsNow
  /\ \E theHeld \in BOOLEAN :
       /\ MayFire(raf, theHeld)
       /\ LET data == ParseCSV(CsvBlobs[lipSyncData[2]]) IN
            IF data = <<>>
              THEN /\ raf' = Fired(raf, theHeld)
                   /\ UNCHANGED <<animationFrameId, faceDirty, morphTargetInfluences,
                                  sampled>>
              ELSE /\ raf' = RequestAnimationFrame(Fired(raf, theHeld))
                   /\ animationFrameId' = TRUE
                   /\ faceDirty' = TRUE
                   /\ morphTargetInfluences' = SampleAt(morphTargetInfluences, data, t)
                   /\ sampled' = [n |-> sampled.n + 1, pos |-> t,
                                  hit |-> FindFrame(data, t),
                                  src |-> sampled.src, of |-> lipSyncData[2],
                                  cut |-> sampled.cut]
  /\ UNCHANGED <<isAnimating, lipSyncData, opsLeft, lastOp, attempt,
                 chatVars, audioVars, orchVars, ambVars, bodyLoad>>

\* A caller invokes playAudio(url) and awaits it.
CallPlayAudio ==
  /\ opsLeft > 0
  /\ AudioPlayAudio(<<"call", 0>>)
  /\ Acts("playAudio", "")
  /\ UNCHANGED <<chatVars, faceVars, orchVars, ambVars, bodyLoad>>

\* The face player sampling parsed frames against the audio clock.
SampleNext ==
  \/ \E b \in DOMAIN CsvBlobs, t \in ClockPositions \cup {0} : CallStartLipSyncCsv(b, t)
  \/ \E t \in ClockPositions \cup {0} : FaceTickAt(t)
  \/ CallStopLipSync
  \/ \E params \in FaceParameters : CallApplyFaceBlendshapes(params)
  \/ CallPlayAudio
  \/ AudioLoaded
  \/ AudioTimeUpdate
  \/ AudioEnded
  \/ AudioError
  \/ BodyLoaded

InitSample == InitWith(MaxSampleOps)

SpecSample == InitSample /\ [][SampleNext]_vars

\* The face player and the orchestrator under direct calls.
FaceNext ==
  \/ \E k \in 0..2, found \in BOOLEAN : CallStartLipSync(k, found)
  \/ CallStopLipSync
  \/ \E params \in FaceParameters : CallApplyFaceBlendshapes(params)
  \/ \E s \in AvatarStates : CallSetAvatarState(s)
  \/ FaceTick
  \/ BodyLoaded
  \/ ViewerReady
  \/ PendingBodyFire

InitFace == InitWith(MaxFaceOps)

SpecFace == InitFace /\ [][FaceNext]_vars

\* The body library on its own: any set of clips the files may have yielded,
\* playRandomAnimation called directly at any time, next to the orchestrator.
Libraries ==
  [idle : 0 .. MaxClips, thinking : 0 .. MaxClips, talking : 0 .. MaxClips]

\* A caller invokes BodyAnimationLoaderService.playRandomAnimation(s).
CallPlayRandomAnimation(s) ==
  /\ opsLeft > 0
  /\ PlayRandomAnimation(s)
  /\ Acts("playRandomAnimation", s)
  /\ UNCHANGED <<avatarState, published, pendingBody, currentBodyState, intervalId, timers,
                 stopTimers,
                 library, chatVars, audioVars, faceVars, ambVars, bodyLoad>>

\* resetAll: stopLipSync, stopAnimation, (bones to rest,) setAvatarState('idle')
ResetAll ==
  /\ StopLipSync
  /\ StopAnimation
  /\ SetAvatarStateSteps("idle")

\* A caller invokes the orchestrator's resetAll().
CallResetAll ==
  /\ opsLeft > 0
  /\ ResetAll
  /\ Acts("resetAll", "")
  /\ UNCHANGED <<chatVars, audioVars, ambVars, bodyLoad>>

\* stopAnimation's setTimeout callback, after the fade window: whatever
\* action is current by then is stopped and currentAction becomes null.
StopAnimationTimeout ==
  /\ stopTimers # <<>>
  /\ stopTimers' = Tail(stopTimers)
  /\ IF currentAction # NoAction
       THEN currentAction' = NoAction /\ bodyClip' = "none"
       ELSE UNCHANGED <<currentAction, bodyClip>>
  /\ UNCHANGED <<avatarState, published, bodyRequests, pendingBody, currentBodyState,
                 intervalId, timers, library,
                 chatVars, audioVars, faceVars, ambVars, bodyLoad, ghostVars>>

BodyNext ==
  \/ \E s \in AvatarStates : CallPlayRandomAnimation(s)
  \/ \E s \in AvatarStates : CallSetAvatarState(s)
  \/ CallResetAll
  \/ StopAnimationTimeout
  \/ BodyLoaded
  \/ ViewerReady
  \/ PendingBodyFire

InitBody == InitCore(MaxBodyOps) /\ library \in Libraries

SpecBody == InitBody /\ [][BodyNext]_vars

\* The fair system: every timer, network reply and media event that is due
\* does occur; user actions are never forced.
Fairness ==
  /\ WF_vars(SendDelayEnd)
  /\ WF_vars((\E r \in Responses : BackendSuccess(r)) \/ BackendFailure)
  /\ WF_vars(ReplayTimerFire)
  /\ WF_vars(\E p \in DOMAIN playbacks : PlaybackDelayEnd(p))
  /\ WF_vars(AmbientTimerFire)
  /\ WF_vars(\E a \in DOMAIN ambients, ok \in BOOLEAN : AmbientCsvFetched(a, ok))
  /\ WF_vars(\E a \in DOMAIN ambients, ok \in BOOLEAN : AmbientAudioChecked(a, ok))
  /\ WF_vars(AudioLoaded)
  /\ WF_vars(AudioEnded \/ AudioError \/ AudioPlayRefused)
  /\ WF_vars(\E e \in DOMAIN elems : AudioPlayAborted(e))
  /\ WF_vars(\E e \in DOMAIN elems, ok \in BOOLEAN : LateLoadEvent(e, ok))
  /\ WF_vars(\E e \in DOMAIN elems : LateTimeUpdate(e))
  /\ WF_vars(BodyLoaded)
  /\ WF_vars(ViewerReady)

SpecLive == Init /\ [][Next]_vars /\ Fairness

\* ------------------------------------------------------------
\* properties

\* The values published since position k.
Since(k) == SubSeq(published, k, Len(published))

ElemsOf(owner) == {e \in DOMAIN elems : elems[e].owner = owner}

\* Playback run p is over and its audio stream ran to its natural end.
EndedNaturally(p) ==
  /\ playbacks[p].pc = "done"
  /\ playbacks[p].exit = "cleanup"
  /\ \E e \in ElemsOf(<<"pb", p>>) : elems[e].st = "ended"

\* The only user action so far is one send, answered with audio and frames,
\* and the audio has ended naturally.
SingleSendDone ==
  /\ lastOp.n = 1
  /\ lastOp.op = "send"
  /\ Len(messages) = 3
  /\ messages[3].audio
  /\ messages[3].csv
  /\ playbacks # <<>>
  /\ EndedNaturally(1)

\* C1: a single send answered with audio and non-empty lip-sync data, whose
\* audio ends naturally, publishes exactly idle, thinking, talking, idle.
C1_SingleSendSequence ==
  SingleSendDone => published = <<"idle", "thinking", "talking", "idle">>

\* The last user action is a replay taken while the avatar was idle with
\* nothing in flight, run p is its playback and p's audio has ended naturally.
ReplayDone(p) ==
  /\ lastOp.op = "replay"
  /\ lastOp.quiet
  /\ playbacks[p].req = currentPlaybackId
  /\ EndedNaturally(p)

\* C2: a replay of a message that has audio, issued while idle and left alone
\* until the audio ends naturally, publishes exactly idle, talking, idle.
C2_ReplaySequence ==
  \A p \in DOMAIN playbacks :
    ReplayDone(p) => Since(lastOp.mark) = <<"idle", "talking", "idle">>

\* Run p resumes (after its settle delay or after its audio wait settled) with
\* a token that is no longer current.
StaleResume(p) ==
  /\ playbacks[p].pc \in {"delay50", "audio"}
  /\ playbacks'[p].pc = "done"
  /\ playbacks[p].id # currentPlaybackId

\* C3: a playMessageAudio continuation whose token is no longer current does
\* not call stopLipSync, does not change AvatarState (nothing is published, no
\* body request) and does not start or stop audio.
C3_StaleDiscard ==
  [][\A p \in DOMAIN playbacks :
       StaleResume(p) => /\ UNCHANGED <<faceVars, orchVars, audio, ambVars>>
                         /\ Len(elems') = Len(elems)]_vars

\* Both kinds of stale continuation have run: one after the settle delay, one
\* after the audio wait.
C3_Witness ==
  /\ \E p \in DOMAIN playbacks : playbacks[p].exit = "cancelled"
  /\ \E p \in DOMAIN playbacks : playbacks[p].exit = "stale"

\* The backend answers a send during whose backend wait the last user action,
\* a replay, was taken.
ResponseAfterReplay ==
  /\ sendPc = "backend"
  /\ sendPc' = "none"
  /\ lastOp.op = "replay"
  /\ lastOp.arg = "backend"

\* C4: when the response of a send arrives after a replay was issued during
\* the backend wait, the send starts no playback run, no lip-sync, no audio and
\* no talking transition, and leaves the replay's playback alone.
C4_SendTokenAtStart ==
  [][ResponseAfterReplay =>
       /\ Len(playbacks') = Len(playbacks)
       /\ UNCHANGED <<audioVars, faceVars, avatarState, replayTimers>>]_vars

\* C5: a playback run asked for by a replay that a newer send or replay has
\* superseded never gets to start lip-sync, talking or audio.
C5_SupersededReplaySilent ==
  [][\A p \in DOMAIN playbacks :
       (playbacks[p].pc = "delay50" /\ playbacks'[p].pc = "audio")
         => playbacks[p].req = currentPlaybackId]_vars

\* A call setAvatarState(X) is made while X is the current AvatarState.
CallWithCurrent ==
  /\ lastOp'.n = lastOp.n + 1
  /\ lastOp'.op = "setAvatarState"
  /\ lastOp'.arg = avatarState

\* C6: setAvatarState(X) with X current publishes nothing, requests no body
\* clip, queues no pending request and leaves the state as it was.
C6_Idempotent ==
  [][CallWithCurrent =>
       UNCHANGED <<orchVars, bodyLoad, chatVars, audioVars, faceVars, ambVars>>]_vars

\* Calls with the current state have been made, before and after the body
\* library was ready, and nothing was published by them.
C6_Witness ==
  /\ lastOp.op = "setAvatarState"
  /\ lastOp.arg = avatarState
  /\ lastOp.mark = Len(published)
  /\ lastOp.arg = "thinking"
  /\ bodyLoad = "loading"
  /\ pendingBody = <<"thinking">>

\* C7: when the backend call of a send fails, exactly one assistant error
\* message is appended, isProcessing is cleared, AvatarState is idle, the send
\* has published nothing but thinking and idle, and it starts no lip-sync, no
\* audio and no playback run.
C7_BackendError ==
  [][/\ (sendPc = "delay100" /\ sendPc' = "backend")
          => published' \in {published, Append(published, "thinking")}
     /\ (sendPc = "backend" /\ sendPc' = "failed")
          => /\ messages' = Append(messages, Message("assistant", NoMedia, TRUE))
             /\ ~isProcessing'
             /\ avatarState' = "idle"
             /\ published' \in {published, Append(published, "idle")}
             /\ UNCHANGED <<audioVars, faceVars, playbacks, replayTimers>>]_vars

\* A send has failed while the avatar was thinking: the error message is the
\* last of the transcript and the avatar is back to idle.
C7_Witness ==
  /\ sendPc = "failed"
  /\ messages[Len(messages)].err
  /\ lastOp.op = "send"
  /\ Since(lastOp.mark) = <<"idle", "thinking", "idle">>

\* Some audio is playing: the current element has started and not ended.
AudioPlaying == audio # 0 /\ elems[audio].st = "playing"

\* C8: whenever AvatarState is talking and no audio is playing, AvatarState
\* becomes idle without any further user action (k user actions are left
\* before and after).
C8_TalkingEnds ==
  \A k \in 0..MaxUserOps :
    (avatarState = "talking" /\ ~AudioPlaying /\ opsLeft = k)
      ~> (avatarState = "idle" \/ opsLeft < k)

\* The promise returned for element e has settled.
Settled(e) == e \in DOMAIN elems /\ elems[e].st \in {"ended", "error", "rejected"}

\* Element e has been superseded by a later stop() or playAudio().
Superseded(e) == e \in DOMAIN elems /\ e # audio

\* C9: the promise of every playAudio call settles, also once its playback
\* has been superseded by stop() or by a later playAudio().
C9_PromiseSettles ==
  \A e \in 1..(2 * MaxUserOps + MaxAmbient) : Superseded(e) ~> Settled(e)

\* A foreground message playback is active: a playMessageAudio run owns the
\* current audio element, which is loading or playing.
ForegroundActive ==
  /\ audio # 0
  /\ elems[audio].owner[1] = "pb"
  /\ elems[audio].st \in {"loading", "playing"}
  /\ playbacks[elems[audio].owner[2]].pc = "audio"

\* C10: an ambient clip never starts its lip-sync and audio while a foreground
\* message playback is active.
C10_AmbientYields ==
  [][\A a \in DOMAIN ambients :
       (ambients[a].pc = "fetchAudio" /\ ambients'[a].pc = "audio")
         => ~ForegroundActive]_vars

\* The playAmbientClip runs that have been entered and have not finished.
InFlight == {a \in DOMAIN ambients : ambients[a].pc \in {"fetchCsv", "fetchAudio", "audio"}}

\* C11: at most one ambient clip is in flight at any time, also while the
\* earlier clip is still loading its resources.
C11_OneAmbientInFlight == Cardinality(InFlight) <= 1

\* The step is a recorded trigger attempt of the scheduler.
AttemptStep == attempt'.n = attempt.n + 1

\* C12: a trigger attempt made while the scheduler's view of AvatarState is
\* talking marks nothing in flight, enters no clip and starts no lip-sync and
\* no audio, whatever the roll.
C12_NoAmbientWhileTalking ==
  [][(AttemptStep /\ attempt'.body = "talking")
       => /\ ambients' = ambients
          /\ ambIsPlaying' => ambIsPlaying
          /\ UNCHANGED <<audioVars, faceVars, nAmbient>>]_vars

\* An attempt was made while talking, past the enabled and audio guards, with
\* a roll no chance would turn down.
C12_Witness ==
  /\ attempt.body = "talking"
  /\ attempt.passed
  /\ attempt.roll = 0

\* The recorded attempt got past every guard and picked a clip.
GuardsPassed(at) ==
  /\ at.passed
  /\ at.body \in {"idle", "thinking"}
  /\ at.clip # 0

\* C13: an attempt past the guards whose roll is strictly greater than the
\* clip's chance enters no clip, fetches nothing, starts no lip-sync and no
\* audio, leaves the in-flight flag false and AvatarState unchanged; the clip
\* is entered exactly when roll <= chance.
C13_RollDecides ==
  [][(AttemptStep /\ GuardsPassed(attempt'))
       => IF attempt'.roll > ambientClips[attempt'.clip].chance
            THEN /\ ambients' = ambients
                 /\ ~ambIsPlaying'
                 /\ UNCHANGED <<audioVars, faceVars, orchVars>>
            ELSE /\ Len(ambients') = Len(ambients) + 1
                 /\ ambIsPlaying']_vars

\* A second attempt past the guards was turned down by its roll while the
\* clip the first one entered is still fetching.
C13_Witness ==
  /\ attempt.n = 2
  /\ GuardsPassed(attempt)
  /\ attempt.roll > ambientClips[attempt.clip].chance
  /\ ~ambIsPlaying
  /\ \E a \in DOMAIN ambients : ambients[a].by = "timer" /\ ambients[a].pc = "fetchCsv"

\* C14: no step of an ambient clip run (its entry, its fetches, its start, its
\* completion or failure) changes AvatarState, publishes anything or issues or
\* queues a body animation request.
C14_AmbientLeavesBody ==
  [][ambients' # ambients
       => UNCHANGED <<avatarState, published, bodyClip, bodyRequests, pendingBody>>]_vars

\* A clip has run to completion while the avatar was thinking, and the avatar
\* and its body clip are still thinking.
C14_Witness ==
  /\ \E a \in DOMAIN ambients : ambients[a].pc = "done"
  /\ avatarState = "thinking"
  /\ bodyClip = "thinking"
  /\ sendPc = "backend"

FaceCall(ops) == lastOp'.n = lastOp.n + 1 /\ lastOp'.op \in ops

\* C15: a call of startLipSync, stopLipSync or applyFaceBlendshapes leaves
\* AvatarState, what was published, the body clip, the body requests issued and
\* queued and the scheduler's view of the body state as they were.
C15_LipSyncLeavesBody ==
  [][FaceCall({"startLipSync", "stopLipSync", "applyFaceBlendshapes"})
       => UNCHANGED orchVars]_vars

\* Lip-sync was started while the avatar was thinking: it runs, and the avatar
\* and its body clip are still thinking.
C15_Witness ==
  /\ lastOp.op = "startLipSync"
  /\ isAnimating /\ animationFrameId
  /\ avatarState = "thinking" /\ bodyClip = "thinking"

AllNeutral ==
  \A m \in DOMAIN morphTargetInfluences :
    \A t \in DOMAIN morphTargetInfluences[m] : morphTargetInfluences[m][t] = 0

\* C17: when stopLipSync returns, every intensity of every bound mesh is 0, no
\* animation-frame callback is pending and isPlaying() is false.
C17_StopLeavesNeutral ==
  [][FaceCall({"stopLipSync"})
       => AllNeutral' /\ ~animationFrameId' /\ ~isAnimating']_vars

\* stopLipSync was called on bound meshes posed by the manual controls while
\* no lip-sync was running, and left them neutral.
C17_Witness ==
  /\ lastOp.op = "stopLipSync"
  /\ lastOp.arg = "posed-stopped"
  /\ Len(morphTargetInfluences) = 3
  /\ AllNeutral

\* C16: while the audio of a message is playing AvatarState is talking, and
\* while the lip-sync of a message is running AvatarState is talking.
C16_ForegroundIsTalking ==
  /\ (AudioPlaying /\ elems[audio].owner[1] = "pb") => avatarState = "talking"
  /\ (isAnimating /\ lipSyncData[1] = "msg") => avatarState = "talking"

\* C18: whenever isPlaying() is false, getCurrentTime() is 0.
C18_InactiveClockIsZero == ~IsPlaying => GetCurrentTime = 0

\* The playback on element e fails in this step: its 'error' event fires, or
\* its play() is refused.
PlaybackFails(e) ==
  \/ elems[e].st \in {"loading", "playing"} /\ elems'[e].st = "error"
  \/ elems[e].st = "loading" /\ elems'[e].st = "rejected"

\* C19: when a playback fails the service is left as stop() leaves it: no
\* audio element is retained and the published state is inactive.
C19_FailureLeavesNothing ==
  [][\A e \in DOMAIN elems :
       PlaybackFails(e) => audio' = 0 /\ ~pubIsPlaying']_vars

\* The audio of playback run p fails in this step while p holds the current
\* token: its element's 'error' fires or its play() rejects.
CurrentAudioFails(p) ==
  /\ playbacks[p].pc = "audio"
  /\ playbacks[p].id = currentPlaybackId
  /\ \E e \in ElemsOf(<<"pb", p>>) :
       /\ elems[e].st \notin {"error", "rejected"}
       /\ elems'[e].st \in {"error", "rejected"}

\* C20: when the audio of a current message playback fails, that same step
\* stops lip-sync with the face neutral, clears the message's isPlaying mark,
\* sets AvatarState to idle, and the run ends through its cleanup.
C20_FailureStillCleansUp ==
  [][\A p \in DOMAIN playbacks :
       CurrentAudioFails(p)
         => /\ ~isAnimating' /\ ~animationFrameId' /\ AllNeutral'
            /\ ~messages'[playbacks[p].msg].isPlaying
            /\ avatarState' = "idle"
            /\ playbacks'[p].pc = "done" /\ playbacks'[p].exit = "cleanup"]_vars

\* A message with frames was playing, its audio failed, and the avatar is idle
\* with a neutral face and no message marked as playing.
C20_Witness ==
  \E p \in DOMAIN playbacks :
    /\ playbacks[p].exit = "cleanup"
    /\ messages[playbacks[p].msg].csv
    /\ \E e \in ElemsOf(<<"pb", p>>) : elems[e].st = "error" /\ elems[e].currentTime > 0
    /\ avatarState = "idle"
    /\ ~isAnimating /\ AllNeutral /\ Len(morphTargetInfluences) = 3
    /\ \A m \in DOMAIN messages : ~messages[m].isPlaying

\* A request made before readiness comes due in this step.
PendingComesDue == pendingBody # <<>> /\ pendingBody' = Tail(pendingBody)

\* C21: of the requests made before readiness only the most recent one is
\* played (an earlier one never issues a playRandom request), and the most
\* recent one is always played (it is never dropped).
C21_OnlyLatestPendingPlayed ==
  [][PendingComesDue
       => IF Len(pendingBody) > 1
            THEN UNCHANGED <<bodyClip, bodyRequests>>
            ELSE bodyRequests' = bodyRequests + 1 /\ bodyClip' = Head(pendingBody)]_vars

\* A recorded sampling tick happens in this step.
SampleStep == sampled'.n = sampled.n + 1

\* C22: the blob with header timeCode,blendShapes.JawOpen and rows (0, 0.2),
\* (0.033, 0.5) parses to two frames in row order, and a tick on them with the
\* clock at 0.034 s applies the second: jawOpen becomes 0.5 on every bound
\* mesh that has it; a mesh without it, and every other target, keeps the
\* value the tick found (the rest pose when startLipSync made the tick).
C22_RoundTrip ==
  /\ ParseCSV(CsvBlobs[1]) =
       << [h \in {"timeCode", "blendShapes.JawOpen"} |->
             IF h = "timeCode" THEN 0 ELSE 20],
          [h \in {"timeCode", "blendShapes.JawOpen"} |->
             IF h = "timeCode" THEN 33 ELSE 50] >>
  /\ [][(SampleStep /\ lipSyncData = <<"csv", 1>> /\ lipSyncData' = lipSyncData
           /\ sampled'.pos = 34)
          => LET found == IF lastOp'.n = lastOp.n
                             THEN morphTargetInfluences
                             ELSE ResetFace(morphTargetInfluences)
             IN  /\ sampled'.hit = 2
                 /\ morphTargetInfluences' =
                      [m \in DOMAIN found |->
                         [t \in DOMAIN found[m] |->
                            IF t = "jawOpen" THEN 50 ELSE found[m][t]]]]_vars

\* A tick at 0.034 s on those frames has set jawOpen to 0.5 on both meshes
\* while the smile set by the manual controls is still there and the
\* eyelashes, which have no jawOpen, are as the controls left them.
C22_Witness ==
  /\ lipSyncData = <<"csv", 1>>
  /\ sampled.n = 2 /\ sampled.pos = 34 /\ sampled.hit = 2
  /\ Len(morphTargetInfluences) = 3
  /\ morphTargetInfluences[1].jawOpen = 50
  /\ morphTargetInfluences[2].jawOpen = 50
  /\ morphTargetInfluences[1].mouthSmileLeft = 40
  /\ morphTargetInfluences[3] = [eyeBlinkLeft |-> 100]

\* A reason for a trigger attempt to abort holds: the scheduler is disabled, a
\* clip is marked in flight, audio is active, or the body state is talking.
MustAbort ==
  \/ ~enabled
  \/ ambIsPlaying
  \/ IsPlaying
  \/ currentBodyState = "talking"

\* C23: a trigger attempt made while a reason to abort holds leaves the enabled
\* flag, the in-flight flag, the clips in flight, the face player, the audio
\* service and AvatarState as they were.
C23_AbortChangesNothing ==
  [][(AttemptStep /\ MustAbort)
       => UNCHANGED <<enabled, ambIsPlaying, ambients, faceVars, audioVars, avatarState>>]_vars

\* C24: when a resource of an ambient clip cannot be loaded, that step ends the
\* clip as failed (caught), clears the in-flight flag, and starts no lip-sync
\* and no audio: the face player, the audio service, AvatarState and the body
\* are as before.
C24_LoadFailureAborts ==
  [][\A a \in DOMAIN ambients :
       (~ambients[a].lost /\ ambients'[a].lost)
         => /\ ambients'[a].pc = "failed"
            /\ ~ambIsPlaying'
            /\ UNCHANGED <<audioVars, faceVars, orchVars>>]_vars

\* A clip triggered while the avatar was thinking has lost a resource: it is
\* over, nothing plays, the face is neutral and the avatar is still thinking.
C24_Witness ==
  /\ \E a \in DOMAIN ambients : ambients[a].lost /\ ambients[a].pc = "failed"
  /\ ~ambIsPlaying
  /\ audio = 0 /\ ~isAnimating /\ AllNeutral /\ Len(morphTargetInfluences) = 3
  /\ avatarState = "thinking" /\ sendPc = "backend"

\* C25: a lip-sync started by an ambient clip runs, with a callback pending or
\* the face posed, only while that clip is still in flight: once the clip is
\* over the face player is stopped and neutral.
C25_AmbientLipSyncEndsWithClip ==
  (lipSyncData[1] = "amb" /\ ambients[lipSyncData[2]].pc \in {"done", "failed"})
    => ~isAnimating /\ ~animationFrameId /\ AllNeutral

\* C26: whenever the in-flight flag is set it is cleared later on.
C26_InFlightCleared == ambIsPlaying ~> ~ambIsPlaying

\* The scheduler is stopped in this step: setEnabled(false) is called, or a
\* setAvatarState call takes AvatarState to talking.
StopsScheduler ==
  /\ lastOp'.n = lastOp.n + 1
  /\ \/ lastOp'.op = "disable"
     \/ lastOp'.op = "setAvatarState" /\ lastOp'.arg = "talking" /\ avatarState # "talking"

\* C27: the step that stops the scheduler leaves no timer armed, and leaves the
\* audio service, the face player, the in-flight flag and the clips in flight
\* as they were.
C27_StopCancelsTimerOnly ==
  [][StopsScheduler
       => /\ ~intervalId'
          /\ UNCHANGED <<audioVars, faceVars, ambIsPlaying, ambients>>]_vars

\* The scheduler was disabled while a clip was playing: no timer is armed and
\* the clip is still playing with its lip-sync running and its flag set.
C27_Witness ==
  /\ lastOp.op = "disable"
  /\ ~intervalId /\ ~enabled
  /\ ambIsPlaying /\ isAnimating /\ AudioPlaying
  /\ \E a \in DOMAIN ambients : ambients[a].pc = "audio" /\ elems[audio].owner = <<"amb", a>>

\* C28: while the scheduler is disabled no ambient timer is armed.
C28_DisabledHasNoTimer == ~enabled => ~intervalId

\* C29: once the viewer's readiness handler has run, an idle avatar has a body
\* clip playing.
C29_IdleClipAfterReady ==
  (bodyLoad = "started" /\ avatarState = "idle") => bodyClip # "none"

\* C30: a playRandomAnimation(state) call on the loaded library plays a clip
\* tagged for the requested state whenever there is one; for thinking with no
\* thinking clip it plays an idle clip; it starts no playback only when the
\* library is not loaded (no mixer) or the array it ends up with is empty; and
\* after a playback the chosen clip's action is the current action.
C30_SelectsFromRequestedSet ==
  [][FaceCall({"playRandomAnimation"})
       => LET s == lastOp'.arg
              loaded == bodyLoad # "loading"
              played == bodyRequests' = bodyRequests + 1
              result == IF ClipsOf(s) # {} THEN ClipsOf(s) ELSE ClipsOf("idle")
          IN  /\ (loaded /\ ClipsOf(s) # {}) => played /\ currentAction' \in ClipsOf(s)
              /\ (loaded /\ s = "thinking" /\ ClipsOf(s) = {} /\ ClipsOf("idle") # {})
                    => played /\ currentAction' \in ClipsOf("idle")
              /\ played \/ UNCHANGED <<bodyRequests, currentAction, bodyClip>>
              /\ ~played => ~loaded \/ result = {}
              /\ played => currentAction' \in result /\ bodyClip' = currentAction'[1]]_vars

C30_Witness ==
  /\ lastOp.op = "playRandomAnimation"
  /\ lastOp.arg = "thinking"
  /\ library.thinking = 0
  /\ library.idle = MaxClips
  /\ currentAction = <<"idle", MaxClips>>
  /\ bodyClip = "idle"
  /\ bodyRequests > 0

\* A stopLipSync call is made in this step.
StopStep == FaceCall({"stopLipSync"})

\* A sampling tick made by a requestAnimationFrame callback (not by a call).
CallbackSamples == SampleStep /\ lastOp' = lastOp

\* C31: over startLipSync, stopLipSync and sampling ticks at most one sampling
\* callback is pending, and a callback's tick reads the frames the most recent
\* startLipSync was given, never those of a sequence it replaced.
C31_StartReplaces ==
  /\ [](raf.pending <= 1)
  /\ [][CallbackSamples => sampled'.of = sampled.src /\ lipSyncData = <<"csv", sampled.src>>]_vars

\* A startLipSync on blob 1, a second one on blob 2 while the first one's
\* callback was pending, then a callback tick, which read blob 2.
C31_Witness ==
  /\ lastOp.op = "startLipSync" /\ lastOp.n = 2
  /\ sampled.cut = 1 /\ sampled.n = 3
  /\ sampled.src = 2 /\ sampled.of = 2
  /\ raf = [pending |-> 1, held |-> TRUE]

\* C32: a sampling tick that finds no frame within the tolerance of the audio
\* position writes no intensity (the face stays as the last applied frame left
\* it; as stopLipSync left it when startLipSync made the tick) and requests
\* the next animation frame; the loop has no pending callback once
\* stopLipSync has run.
C32_MissHoldsLastFrame ==
  /\ [][(SampleStep /\ sampled'.hit = 0)
          => /\ morphTargetInfluences' =
                  (IF lastOp' = lastOp THEN morphTargetInfluences
                                       ELSE ResetFace(morphTargetInfluences))
             /\ animationFrameId' /\ raf'.pending = 1 /\ raf'.held
             /\ isAnimating' /\ lipSyncData' = <<"csv", sampled'.src>>]_vars
  /\ [][StopStep => raf'.pending = 0 /\ ~animationFrameId']_vars

\* The clock ran past the last frame of blob 2: the callback's tick at 0.100 s
\* found nothing and the face still shows the frame an earlier tick applied.
C32_Witness ==
  /\ lipSyncData = <<"csv", 2>>
  /\ sampled.n = 3 /\ sampled.pos = 100 /\ sampled.hit = 0
  /\ Len(morphTargetInfluences) = 3
  /\ morphTargetInfluences[1].jawOpen = 40
  /\ morphTargetInfluences[1].mouthSmileLeft = 30
  /\ morphTargetInfluences[2].jawOpen = 40
  /\ raf = [pending |-> 1, held |-> TRUE]

\* the frames the sampling tick of this step read
SampledData == ParseCSV(CsvBlobs[sampled'.of])

\* C34: on every sampling tick that finds a frame within the tolerance, the
\* frame it applies is one whose timeCode is closest to the audio position.
C34_ClosestFrameApplied ==
  [][(SampleStep /\ sampled'.hit # 0)
       => \A j \in DOMAIN SampledData :
            Abs(SampledData[sampled'.hit].timeCode - sampled'.pos)
              <= Abs(SampledData[j].timeCode - sampled'.pos)]_vars

\* the parameter object of the applyFaceBlendshapes call made in this step
ParamsGiven == CHOOSE params \in FaceParameters : ParamsName(params) = lastOp'.arg

\* C33: applyFaceBlendshapes(params) sets every channel a target's lookup
\* knows and the table maps from a parameter of params to that parameter's
\* value / 100; every other channel (of a parameter not in params, of a name
\* the table does not know, or not in the lookup) is unchanged, and with no
\* bound target nothing is written.
C33_OnlyMappedChannelsWritten ==
  [][FaceCall({"applyFaceBlendshapes"})
       => /\ DOMAIN morphTargetInfluences' = DOMAIN morphTargetInfluences
          /\ \A m \in DOMAIN morphTargetInfluences :
               /\ DOMAIN morphTargetInfluences'[m] = DOMAIN morphTargetInfluences[m]
               /\ \A t \in DOMAIN morphTargetInfluences[m] :
                    LET from == {q \in DOMAIN ParamsGiven \cap DOMAIN Mappings :
                                   t \in Mappings[q]}
                    IN  IF from = {}
                          THEN morphTargetInfluences'[m][t] = morphTargetInfluences[m][t]
                          ELSE \E q \in from :
                                 morphTargetInfluences'[m][t] = ParamsGiven[q]]_vars

\* jawOpen was set to 100 by one call; a later call with smile and eyeBlink
\* set the smile and the blink and left jawOpen as it was.
C33_Witness ==
  /\ lastOp.op = "applyFaceBlendshapes" /\ lastOp.arg = "smileBlink"
  /\ Len(morphTargetInfluences) = 3
  /\ morphTargetInfluences[1] =
       [jawOpen |-> 100, mouthSmileLeft |-> 40, mouthSmileRight |-> 40]
  /\ morphTargetInfluences[2] = [jawOpen |-> 100]
  /\ morphTargetInfluences[3] = [eyeBlinkLeft |-> 100]

\* An element that is not the current one delivers a late event in this step.
SupersededDelivers ==
  /\ audio' = audio
  /\ \E e \in DOMAIN elems :
       /\ e # audio
       /\ \/ elems[e].loadPending /\ ~elems'[e].loadPending
          \/ elems[e].tuPending /\ ~elems'[e].tuPending

\* C35: an event delivered by an audio element that stop() or a later
\* playAudio has superseded does not change what isPlaying() returns.
C35_SupersededEventsIgnored ==
  [][SupersededDelivers => pubIsPlaying' = pubIsPlaying]_vars

\* C36: over all AvatarState changes, setEnabled calls and timer firings at
\* most one timer of the periodic check is pending, and a firing leaves
\* exactly one new timer pending, whose id the scheduler holds.
C36_OneAmbientTimer ==
  /\ [](timers.pending <= 1)
  /\ [][AttemptStep => timers'.pending = 1 /\ timers'.held /\ intervalId']_vars

\* The scheduler was disabled and enabled again and its timer has fired
\* twice: one timer is pending.
C36_Witness ==
  /\ attempt.n = MaxAttempts
  /\ lastOp.op = "enable" /\ lastOp.n = 2
  /\ timers = [pending |-> 1, held |-> TRUE]
  /\ intervalId

\* C37: a sendMessage call with nothing to send, or made while a send is
\* being processed, changes nothing (token, transcript, AvatarState, audio,
\* lip-sync); so a send is accepted only when none is in progress, and
\* isProcessing is cleared when the backend call succeeds and when it fails.
C37_RejectedSendChangesNothing ==
  /\ [][FaceCall({"sendReturns"})
          => UNCHANGED <<chatVars, audioVars, faceVars, orchVars, ambVars>>]_vars
  /\ [][FaceCall({"send"}) => ~isProcessing /\ sendPc \in {"none", "failed"}]_vars
  /\ [][(sendPc = "backend" /\ sendPc' # "backend") => ~isProcessing']_vars
  /\ [](isProcessing => sendPc \in {"delay100", "backend"})

\* The user pressed send again, with text, while the backend call of the
\* first send was pending: one user message, token 1, avatar thinking.
C37_Witness ==
  /\ lastOp.op = "sendReturns" /\ lastOp.arg = "hello"
  /\ isProcessing /\ sendPc = "backend"
  /\ currentPlaybackId = 1
  /\ Len(messages) = 2
  /\ avatarState = "thinking"

\* The backend call of the send in progress has succeeded with a response
\* that carries no audio reference, under playback token k.
AnsweredWithoutAudio(k) ==
  /\ sendPc = "none"
  /\ currentPlaybackId = k
  /\ messages[Len(messages)].role = "assistant"
  /\ ~messages[Len(messages)].audio
  /\ ~messages[Len(messages)].err
  /\ avatarState = "thinking"

\* C38: a send whose backend call succeeded, also with a response without an
\* audio reference, leads to AvatarState idle unless a later send or replay
\* supersedes it (the token moves on).
C38_SendReturnsToIdle ==
  \A k \in 1 .. MaxUserOps :
    AnsweredWithoutAudio(k) ~> (avatarState = "idle" \/ currentPlaybackId # k)

\* the messages marked isPlaying
Marked == {m \in DOMAIN messages : messages[m].isPlaying}

\* playMessageAudio run p is the current playback: it has not finished, and
\* a foreground audio element that is current is its own.
CurrentPlayback(p) ==
  /\ playbacks[p].pc \in {"delay50", "audio"}
  /\ (audio # 0 /\ elems[audio].owner[1] = "pb") => elems[audio].owner = <<"pb", p>>

\* C39: at most one message is marked isPlaying, and a marked message has a
\* playback of its own that is the current one.
C39_OneMessageMarked ==
  /\ Cardinality(Marked) <= 1
  /\ \A m \in Marked :
       \E p \in DOMAIN playbacks : playbacks[p].msg = m /\ CurrentPlayback(p)

\* The delayed stop of a stopAnimation call comes due in this step, and a
\* clip has been started since that call.
DelayedStopAfterNewClip ==
  /\ stopTimers # <<>>
  /\ stopTimers' = Tail(stopTimers)
  /\ bodyRequests > Head(stopTimers).at
  /\ currentAction # NoAction

\* C40: the delayed stop of stopAnimation leaves a clip that
\* playRandomAnimation started inside the fade window as the current action.
C40_DelayedStopSparesNewClip ==
  [][DelayedStopAfterNewClip => currentAction' = currentAction /\ bodyClip' = bodyClip]_vars
====
